---------------------------- MODULE Spec2Model ----------------------------
(***************************************************************************)
(* A model of app.py, the CitiBike 2022 dashboard script: one run of the   *)
(* script from the sidebar inputs to the map embed.  The script loads the  *)
(* trips table (or a demo table), normalizes it, shows two metrics and     *)
(* then builds one chart per tab.  An exception raised by any step ends    *)
(* the run (pc = "crashed").                                               *)
(*                                                                         *)
(* Values.  A text cell holding a timestamp is a pair <<day, minute>>      *)
(* (day: days since 1970-01-01, minute: minute of the day); any other      *)
(* sequence is text that does not parse.  A datetime64 value is <<n>>, n   *)
(* minutes since 1970-01-01 00:00, and NaT is <<>>.  A duration in minutes *)
(* is <<v>>, a temperature is a fraction <<numerator, denominator>>, and   *)
(* NaN is <<>>.  A string built by astype(str) is a sequence of one-       *)
(* character strings.  A table is [cols, rows]: the set of column names    *)
(* and the sequence of rows, each a function from cols to cell values.     *)
(***************************************************************************)
EXTENDS Integers, Sequences, FiniteSets, TLC

VARIABLES
    trip_csv,       \* the file at csv_path: [exists, cols, rows]
    weather_csv,    \* the file at weather_path: [exists, cols, rows]
    pc,             \* the script's position
    df_raw,         \* line 299
    df,             \* line 300
    st_error,       \* whether st.error was called (line 80)
    metrics,        \* total_rides and avg_duration (lines 303-304)
    weather,        \* load_weather's result (line 379)
    figs,           \* the data behind each chart built so far
    failure         \* the exception that ended the run, "" if none

vars == <<trip_csv, weather_csv, pc, df_raw, df, st_error, metrics, weather,
          figs, failure>>

-----------------------------------------------------------------------------
(* Bounds of the inputs. *)

MaxCols == 3
MaxRows == 2
DemoRows == 2
MaxTempCols == 2
MaxWeatherRows == 2

-----------------------------------------------------------------------------
(* Constants and generic helpers. *)

MinutesPerDay == 24 * 60

NaT == <<>>
NaN == <<>>

\* A variant of WEEKDAY_ORDER that starts the week on Sunday.
WEEKDAY_ORDER_SundayFirst ==
    <<"Sunday", "Monday", "Tuesday", "Wednesday", "Thursday", "Friday", "Saturday">>

WEEKDAY_ORDER ==
    <<"Monday", "Tuesday", "Wednesday", "Thursday", "Friday", "Saturday", "Sunday">>

Range(s) == {s[i] : i \in 1..Len(s)}

\* next((c for c in lst if c in cols), None), None being "".
FirstPresent(lst, cols) ==
    IF \E i \in 1..Len(lst) : lst[i] \in cols
    THEN lst[CHOOSE i \in 1..Len(lst) :
               lst[i] \in cols /\ \A j \in 1..(i - 1) : lst[j] \notin cols]
    ELSE ""

EmptyTable == [cols |-> {}, rows |-> <<>>]
NoFile == [exists |-> FALSE, cols |-> {}, rows |-> <<>>]

Indices(t) == 1..Len(t.rows)

\* d[c] = values, one value for every row (a new column, or an existing one
\* replaced).
WithColumn(t, c, values) ==
    [cols |-> t.cols \cup {c},
     rows |-> [i \in Indices(t) |->
                 [k \in t.cols \cup {c} |->
                     IF k = c THEN values[i] ELSE t.rows[i][k]]]]

\* d.rename(columns={a: b}), b not a column of d.
RenameColumn(t, a, b) ==
    [cols |-> (t.cols \ {a}) \cup {b},
     rows |-> [i \in 1..Len(t.rows) |->
                 [k \in (t.cols \ {a}) \cup {b} |->
                     IF k = b THEN t.rows[i][a] ELSE t.rows[i][k]]]]

\* pd.to_datetime(x, errors="coerce") of one cell: text is parsed, a datetime
\* is kept, anything else becomes NaT.
to_datetime(cell) ==
    IF Len(cell) = 2 /\ cell[1] >= 0 /\ cell[2] \in 0..(MinutesPerDay - 1)
    THEN <<cell[1] * MinutesPerDay + cell[2]>>
    ELSE IF Len(cell) = 1 THEN cell ELSE NaT

\* .dt.date followed by pd.to_datetime: midnight of the same day.
dt_date(ts) ==
    IF ts = NaT THEN NaT ELSE <<(ts[1] \div MinutesPerDay) * MinutesPerDay>>

-----------------------------------------------------------------------------
(* Calendar arithmetic of pandas' datetime accessors. *)

\* The civil date <<year, month, day>> of a day number (days since 1970-01-01).
CivilFromDays(dn) ==
    LET z == dn + 719468
        era == z \div 146097
        doe == z - era * 146097
        yoe == (doe - doe \div 1460 + doe \div 36524 - doe \div 146096) \div 365
        doy == doe - (365 * yoe + yoe \div 4 - yoe \div 100)
        mp == (5 * doy + 2) \div 153
        dd == doy - (153 * mp + 2) \div 5 + 1
        mm == IF mp < 10 THEN mp + 3 ELSE mp - 9
        yy == yoe + era * 400 + (IF mm <= 2 THEN 1 ELSE 0)
    IN  <<yy, mm, dd>>

\* The English day names, from Monday, as pandas has them.
DayNames ==
    <<"Monday", "Tuesday", "Wednesday", "Thursday", "Friday", "Saturday", "Sunday">>

\* Series.dt.day_name() of one value: NaN for NaT.  1970-01-01 was a Thursday.
day_name(ts) ==
    IF ts = NaT THEN NaN
    ELSE <<DayNames[((ts[1] \div MinutesPerDay + 3) % 7) + 1]>>

\* pd.Categorical(values, categories=..., ordered=True) of one value: the code
\* of its category, -1 for NaN or for a value that is no category.
Categorical(v, categories) ==
    IF v # NaN /\ \E i \in 1..Len(categories) : categories[i] = v[1]
    THEN (CHOOSE i \in 1..Len(categories) : categories[i] = v[1]) - 1
    ELSE -1

Digits == <<"0", "1", "2", "3", "4", "5", "6", "7", "8", "9">>

Digit(n) == Digits[n + 1]

\* str() of a monthly Period: "YYYY-MM".
PeriodStr(y, m) ==
    <<Digit((y \div 1000) % 10), Digit((y \div 100) % 10), Digit((y \div 10) % 10),
      Digit(y % 10), "-", Digit((m \div 10) % 10), Digit(m % 10)>>

\* .dt.to_period("M").astype(str) of one value; the missing period is
\* formatted like any other value, as the text NaT.
month_label(ts) ==
    IF ts = NaT THEN <<"N", "a", "T">>
    ELSE LET c == CivilFromDays(ts[1] \div MinutesPerDay) IN PeriodStr(c[1], c[2])

-----------------------------------------------------------------------------
(* normalize_trips, lines 63-111. *)

\* A variant of RiderAlternates that scans the alternates in reverse.
RiderAlternatesReversed == <<"memberCasual", "member.casual", "rider_type">>

RiderAlternates == <<"rider_type", "member.casual", "memberCasual">>

\* A variant of DateCandidates that prefers started_at to date.
DateCandidatesStartedFirst == <<"started_at", "date", "start_time", "start_datetime">>

DateCandidates == <<"date", "started_at", "start_time", "start_datetime">>

\* A variant of DurationGuesses with its first two names swapped.
DurationGuessesSwapped ==
    <<"duration_min", "trip_duration", "ride_length_min", "ride_duration_min",
      "tripduration_min">>

DurationGuesses ==
    <<"trip_duration", "duration_min", "ride_length_min", "ride_duration_min",
      "tripduration_min">>

\* Lines 66-71.
StandardizeRider(d) ==
    IF "member_casual" \notin d.cols /\ FirstPresent(RiderAlternates, d.cols) # ""
    THEN RenameColumn(d, FirstPresent(RiderAlternates, d.cols), "member_casual")
    ELSE d

\* Lines 74-78.
FindDateCol(d) == FirstPresent(DateCandidates, d.cols)

\* Lines 83-87.
EnsureDate(d, date_col) ==
    LET d1 == WithColumn(d, date_col,
            [i \in Indices(d) |-> to_datetime(d.rows[i][date_col])])
        d2 == IF date_col # "date"
              THEN WithColumn(d1, "date", [i \in Indices(d1) |-> d1.rows[i][date_col]])
              ELSE d1
    IN  WithColumn(d2, "date", [i \in Indices(d2) |-> dt_date(d2.rows[i]["date"])])

\* A variant of DurationMinutes that clamps a negative duration to zero.
DurationMinutesClamped(started, ended) ==
    IF started = NaT \/ ended = NaT THEN NaN
    ELSE IF ended[1] < started[1] THEN <<0>> ELSE <<ended[1] - started[1]>>

\* (ended_at - started_at).dt.total_seconds()/60 of one row, line 102.
DurationMinutes(started, ended) ==
    IF started = NaT \/ ended = NaT THEN NaN ELSE <<ended[1] - started[1]>>

\* Lines 90-102.
EnsureDuration(d) ==
    IF "trip_duration_min" \in d.cols THEN d
    ELSE IF FirstPresent(DurationGuesses, d.cols) # ""
    THEN WithColumn(d, "trip_duration_min",
            [i \in Indices(d) |-> d.rows[i][FirstPresent(DurationGuesses, d.cols)]])
    ELSE IF "started_at" \in d.cols /\ "ended_at" \in d.cols
    THEN LET d1 == WithColumn(d, "started_at",
            [i \in Indices(d) |-> to_datetime(d.rows[i]["started_at"])])
             d2 == WithColumn(d1, "ended_at",
                     [i \in Indices(d1) |-> to_datetime(d1.rows[i]["ended_at"])])
         IN  WithColumn(d2, "trip_duration_min",
                 [i \in Indices(d2) |->
                     DurationMinutes(d2.rows[i]["started_at"], d2.rows[i]["ended_at"])])
    ELSE d

\* Lines 105-106.
EnsureDayOfWeek(d) ==
    WithColumn(d, "day_of_week",
            [i \in Indices(d) |->
                Categorical(day_name(d.rows[i]["date"]), WEEKDAY_ORDER)])

\* Line 109.
EnsureMonth(d) == WithColumn(d, "month",
        [i \in Indices(d) |-> month_label(d.rows[i]["date"])])

\* Whether normalize_trips reports the missing date column (lines 79-80).
MissingDateCol(raw) == FindDateCol(StandardizeRider(raw)) = ""

\* A variant of normalize_trips that goes on with an empty date column when
\* no date column is found.
normalize_trips_guessing(raw) ==
    LET d == StandardizeRider(raw)
    IN  IF FindDateCol(d) = ""
        THEN EnsureMonth(EnsureDayOfWeek(WithColumn(d, "date",
                [i \in Indices(d) |-> NaT])))
        ELSE EnsureMonth(EnsureDayOfWeek(EnsureDuration(EnsureDate(d, FindDateCol(d)))))

normalize_trips(raw) ==
    LET d == StandardizeRider(raw)
    IN  IF FindDateCol(d) = "" THEN d
        ELSE EnsureMonth(EnsureDayOfWeek(EnsureDuration(EnsureDate(d, FindDateCol(d)))))

-----------------------------------------------------------------------------
(* load_trips, lines 40-60. *)

\* 2022-01-01 as a day number: the start of the demo's date_range (line 45).
DemoStartDay == 18993

\* freq="6H" (line 45), in minutes.
DemoFreq == 6 * 60

\* Outcomes of np.random.gamma(2, 8) (line 49), in whole minutes.
DemoGammas == {3, 16}

\* The stations of the demo (lines 51-52).
DemoStations == {"W 21 St & 6 Ave"}

DemoCols ==
    {"ride_id", "started_at", "ended_at", "start_station_name", "member_casual",
     "trip_duration_min"}

\* One row of the demo table (lines 46-56): i is the row's index, g its gamma
\* draw, s its station and m its rider type.
DemoRow(i, g, s, m) ==
    LET start == DemoStartDay * MinutesPerDay + i * DemoFreq
    IN  [k \in DemoCols |->
            CASE k = "ride_id" -> i
              [] k = "started_at" -> <<start>>
              [] k = "ended_at" -> <<start + g>>
              [] k = "start_station_name" -> s
              [] k = "member_casual" -> m
              [] OTHER -> DurationMinutes(<<start>>, <<start + g>>)]

\* Every demo table of n rows.
DemoTables(n) ==
    {[cols |-> DemoCols,
      rows |-> [i \in 1..n |-> DemoRow(i - 1, g[i], s[i], m[i])]] :
        g \in [1..n -> DemoGammas], s \in [1..n -> DemoStations],
        m \in [1..n -> {"member", "casual"}]}

\* pd.read_csv(path), line 59.
read_csv(file) == [cols |-> file.cols, rows |-> file.rows]

-----------------------------------------------------------------------------
(* load_weather, lines 114-126. *)

\* A variant of WeatherTempCandidates that prefers the tenths column.
WeatherTempCandidatesTenthsFirst ==
    <<"avg_temp_f_tenths", "avg_temp_f", "tavg_f", "tavg", "temp_avg_f">>

WeatherTempCandidates ==
    <<"avg_temp_f", "tavg_f", "tavg", "temp_avg_f", "avg_temp_f_tenths">>

RECURSIVE Gcd(_, _)
Gcd(a, b) == IF b = 0 THEN a ELSE Gcd(b, a % b)

\* x / k of a fraction x = <<numerator, denominator>>, in lowest terms.
FloatDiv(x, k) ==
    IF x = NaN THEN NaN
    ELSE LET n == x[1]
             d == x[2] * k
             g == Gcd(IF n < 0 THEN -n ELSE n, d)
         IN  <<n \div g, d \div g>>

\* Whether read_csv(path, parse_dates=["date"]) raises (line 118).
WeatherReadFails(file) == "date" \notin file.cols

\* Whether .dt raises on the date column (line 119): read_csv leaves a column
\* with a value it cannot parse as text.
WeatherDateFails(file) ==
    \E i \in 1..Len(file.rows) : to_datetime(file.rows[i]["date"]) = NaT

\* Line 122.
WeatherTempCol(w) == FirstPresent(WeatherTempCandidates, w.cols)

\* Lines 118-126, for a file that is read without an exception.
load_weather(file) ==
    LET w0 == read_csv(file)
        w1 == WithColumn(w0, "date",
                [i \in Indices(w0) |-> dt_date(to_datetime(w0.rows[i]["date"]))])
        found == WeatherTempCol(w1)
        w2 == IF found = "avg_temp_f_tenths"
              THEN WithColumn(w1, "avg_temp_f",
                      [i \in Indices(w1) |->
                          FloatDiv(w1.rows[i]["avg_temp_f_tenths"], 10)])
              ELSE w1
        temp_col == IF found = "avg_temp_f_tenths" THEN "avg_temp_f" ELSE found
        keep == w2.cols \cap {"date", temp_col}
    IN  [none |-> FALSE,
         cols |-> keep,
         rows |-> [i \in 1..Len(w2.rows) |-> [k \in keep |-> w2.rows[i][k]]]]

None == [none |-> TRUE, cols |-> {}, rows |-> <<>>]

-----------------------------------------------------------------------------
(* Figure builders, lines 132-233: the data each chart is drawn from. *)

RECURSIVE SortedSeq(_)
\* The elements of a finite set of integers, ascending.
SortedSeq(S) ==
    IF S = {} THEN <<>>
    ELSE LET lo == CHOOSE x \in S : \A y \in S : x <= y
         IN  <<lo>> \o SortedSeq(S \ {lo})

RECURSIVE Concat(_)
Concat(ss) == IF ss = <<>> THEN <<>> ELSE Head(ss) \o Concat(Tail(ss))

\* px.box(df, x="member_casual", y="trip_duration_min") raises on a column
\* that df does not have (lines 133-134).
DistributionFails(d) == ~({"member_casual", "trip_duration_min"} \subseteq d.cols)

fig_distribution(d) ==
    [i \in Indices(d) |-> <<d.rows[i]["member_casual"], d.rows[i]["trip_duration_min"]>>]

\* df.groupby(["month","member_casual"]) raises KeyError on a missing key
\* (line 142).
MonthlyTrendFails(d) == ~({"month", "member_casual"} \subseteq d.cols)

\* Line 142: the size of each (month, member_casual) group; a row whose
\* month is NaN is in no group.
fig_monthly_trend(d) ==
    LET in == {i \in Indices(d) : d.rows[i]["month"] # NaN}
        keys == {<<d.rows[i]["month"], d.rows[i]["member_casual"]>> : i \in in}
    IN  [k \in keys |->
            Cardinality({i \in in : <<d.rows[i]["month"], d.rows[i]["member_casual"]>> = k})]

\* df["member_casual"] raises KeyError (line 152).
TotalsFails(d) == "member_casual" \notin d.cols

fig_totals(d) ==
    [k \in {d.rows[i]["member_casual"] : i \in Indices(d)} |->
        Cardinality({i \in Indices(d) : d.rows[i]["member_casual"] = k})]

StationCandidates == <<"start_station_name", "start_station", "from_station_name">>

\* Lines 163-167; the empty figure when there is no station column.
fig_top_start_stations(d) ==
    LET station_col == FirstPresent(StationCandidates, d.cols)
    IN  IF station_col = "" THEN <<>>
        ELSE [k \in {d.rows[i][station_col] : i \in Indices(d)} |->
                Cardinality({i \in Indices(d) : d.rows[i][station_col] = k})]

\* df.groupby("date") raises KeyError (line 180).
DailyFails(d) == "date" \notin d.cols

\* Line 180: one row per date, ascending; a row whose date is NaT is in no
\* group.
DailyRides(d) ==
    LET in == {i \in Indices(d) : d.rows[i]["date"] # NaT}
        dates == SortedSeq({d.rows[i]["date"][1] : i \in in})
    IN  [j \in 1..Len(dates) |->
            [date |-> <<dates[j]>>,
             rides |-> Cardinality({i \in in : d.rows[i]["date"] = <<dates[j]>>})]]

\* The weather rows joined to one daily row, in the weather table's order.
RECURSIVE MatchesOf(_, _)
MatchesOf(day, wrows) ==
    IF wrows = <<>> THEN <<>>
    ELSE (IF Head(wrows)["date"] = day.date
          THEN <<[k \in DOMAIN Head(wrows) \cup {"rides"} |->
                    IF k = "rides" THEN day.rides ELSE Head(wrows)[k]]>>
          ELSE <<>>) \o MatchesOf(day, Tail(wrows))

\* A variant of MergeInner that keeps a daily row without weather
\* (how="left").
MergeLeft(daily, w) ==
    [cols |-> {"date", "rides"} \cup w.cols,
     rows |-> Concat([j \in 1..Len(daily) |->
                 IF MatchesOf(daily[j], w.rows) = <<>>
                 THEN <<[k \in {"date", "rides"} \cup w.cols |->
                           IF k = "date" THEN daily[j].date
                           ELSE IF k = "rides" THEN daily[j].rides ELSE NaN]>>
                 ELSE MatchesOf(daily[j], w.rows)])]

\* daily.merge(weather, on="date", how="inner"), line 189.
MergeInner(daily, w) ==
    [cols |-> {"date", "rides"} \cup w.cols,
     rows |-> Concat([j \in 1..Len(daily) |-> MatchesOf(daily[j], w.rows)])]

FigTempCandidates == <<"avg_temp_f", "tavg_f", "tavg", "temp_avg_f">>

\* Line 190.
FigTempCol(m) == FirstPresent(FigTempCandidates, m.cols)

\* m[temp_col] with temp_col None raises KeyError (line 198).
RidesVsTempFails(d, w) ==
    DailyFails(d) \/ (~w.none /\ FigTempCol(MergeInner(DailyRides(d), w)) = "")

\* Lines 178-211: the daily rides alone, or the joined view with its
\* temperature column.
fig_rides_vs_temp(d, w) ==
    IF w.none
    THEN [joined |-> FALSE, temp_col |-> "", rows |-> DailyRides(d)]
    ELSE LET m == MergeInner(DailyRides(d), w)
         IN  [joined |-> TRUE, temp_col |-> FigTempCol(m), rows |-> m.rows]

\* df["date"] raises KeyError when there is neither column (lines 215-218).
HeatmapFails(d) == "started_at" \notin d.cols /\ "date" \notin d.cols

\* Lines 215-224: rows with a NaT timestamp are dropped; the groups are the
\* seven weekday categories by the hours that occur.
fig_hour_weekday_heatmap(d) ==
    LET src == IF "started_at" \in d.cols THEN "started_at" ELSE "date"
        dt == [i \in Indices(d) |-> to_datetime(d.rows[i][src])]
        in == {i \in Indices(d) : dt[i] # NaT}
        hour(i) == (dt[i][1] % MinutesPerDay) \div 60
        weekday(i) == Categorical(day_name(dt[i]), WEEKDAY_ORDER)
        hours == {hour(i) : i \in in}
    IN  [k \in (0..(Len(WEEKDAY_ORDER) - 1)) \X hours |->
            Cardinality({i \in in : <<weekday(i), hour(i)>> = k})]

-----------------------------------------------------------------------------
(* The files the sidebar's paths may name. *)

TripColumnPool ==
    {"date", "started_at", "start_time", "start_datetime", "ended_at", "stoptime",
     "member_casual", "rider_type", "member.casual", "memberCasual", "usertype",
     "user_type", "trip_duration_min", "trip_duration", "duration_min",
     "start_station_name"}

Garbage == <<"n", "/", "a">>

\* 2022-01-01 08:00 (a Saturday) and 2022-02-01 00:30 (a Tuesday), as text.
StartTexts == {<<18993, 480>>, <<19024, 30>>}

\* 2022-01-01 08:15 and 2022-01-01 07:50, as text.
EndTexts == {<<18993, 495>>, <<18993, 470>>}

\* The values a cell of a trips file may hold, by column.
CellValues ==
    [c \in TripColumnPool |->
    CASE c \in {"date", "started_at", "start_time", "start_datetime"} ->
            StartTexts \cup {Garbage}
      [] c = "ended_at" -> EndTexts
      [] c = "stoptime" -> {<<18993, 495>>}
      [] c \in {"member_casual", "rider_type", "member.casual", "memberCasual"} ->
            {"member", "casual"}
      [] c \in {"usertype", "user_type"} -> {"Subscriber"}
      [] c \in {"trip_duration_min", "trip_duration", "duration_min"} -> {<<15>>, <<-5>>}
      [] OTHER -> {"W 21 St & 6 Ave"}]

RECURSIVE RowsOver(_, _)
\* Every row over the columns S, each cell drawn from V[column].
RowsOver(S, V) ==
    IF S = {} THEN {<<>>}
    ELSE LET c == CHOOSE x \in S : TRUE
         IN  {(c :> v) @@ r : v \in V[c], r \in RowsOver(S \ {c}, V)}

\* Every file over the columns S with at most n rows.
FilesOver(S, V, n) ==
    {[exists |-> TRUE, cols |-> S, rows |-> rs] :
        rs \in UNION {[1..k -> RowsOver(S, V)] : k \in 0..n}}

\* Every file over the columns S with exactly one row.
OneRowFilesOver(S, V) ==
    {[exists |-> TRUE, cols |-> S, rows |-> <<r>>] : r \in RowsOver(S, V)}

\* The wide trips files: one row over any columns of the pool, at most
\* MaxCols of them.
WideTripFiles ==
    UNION {OneRowFilesOver(S, CellValues) :
             S \in {T \in SUBSET TripColumnPool : Cardinality(T) <= MaxCols}}

TallSchemas ==
    {{"started_at", "ended_at", "member_casual"},
     {"date", "started_at", "trip_duration"},
     {"start_time", "rider_type"}}

\* The tall trips files: at most MaxRows rows over one of a few schemas.
TallTripFiles == UNION {FilesOver(S, CellValues, MaxRows) : S \in TallSchemas}

TripFiles == WideTripFiles \cup TallTripFiles

\* 2022-01-01, 2022-01-02 and 2022-01-03, as text.
DayTexts == {<<18993, 0>>, <<18994, 0>>, <<18995, 0>>}

WeatherColumnPool ==
    {"avg_temp_f", "tavg_f", "tavg", "temp_avg_f", "avg_temp_f_tenths"}

\* The values a cell of a weather file may hold, by column; a temperature is
\* a fraction <<numerator, denominator>>.
WeatherCellValues ==
    [c \in WeatherColumnPool \cup {"date"} |->
    CASE c = "date" -> DayTexts \cup {Garbage}
      [] c = "avg_temp_f_tenths" -> {<<505, 1>>}
      [] OTHER -> {<<68, 1>>}]

\* The wide weather files: one row, a date column or none, at most
\* MaxTempCols temperature columns.
WideWeatherFiles ==
    UNION {OneRowFilesOver(S \cup D, WeatherCellValues) :
             S \in {T \in SUBSET WeatherColumnPool : Cardinality(T) <= MaxTempCols},
             D \in {{}, {"date"}}}

TallWeatherSchemas == {{"date", "avg_temp_f"}, {"date", "avg_temp_f_tenths"}, {"date"}}

\* The tall weather files: at most MaxWeatherRows rows over one of a few
\* schemas.
TallWeatherFiles ==
    UNION {FilesOver(S, WeatherCellValues, MaxWeatherRows) : S \in TallWeatherSchemas}

\* Trips files of one schema whose dates are the days of the weather files.
JoinCellValues ==
    [c \in {"date", "member_casual", "trip_duration_min"} |->
    CASE c = "date" -> DayTexts \cup {Garbage}
      [] c = "member_casual" -> {"member"}
      [] OTHER -> {<<15>>}]

JoinTripFiles ==
    FilesOver({"date", "member_casual", "trip_duration_min"}, JoinCellValues, MaxRows)

-----------------------------------------------------------------------------
(* The run of the script. *)

NoMetrics == [total_rides |-> 0, avg_duration |-> NaN]

Init ==
    /\ \/ trip_csv \in TripFiles /\ weather_csv = NoFile
       \/ trip_csv = NoFile /\ weather_csv \in WideWeatherFiles
       \/ trip_csv \in JoinTripFiles /\ weather_csv \in TallWeatherFiles
    /\ pc = "load"
    /\ df_raw = EmptyTable
    /\ df = EmptyTable
    /\ st_error = FALSE
    /\ metrics = NoMetrics
    /\ weather = None
    /\ figs = <<>>
    /\ failure = ""

\* The step at pc succeeds and the script goes on to `next`.
Goto(next) == pc' = next /\ failure' = ""

\* The step at pc raises: streamlit shows the exception and the run ends.
Raise(exc) == pc' = "crashed" /\ failure' = exc

\* Line 299: df_raw = load_trips(csv_path).
LoadTrips ==
    /\ pc = "load"
    /\ IF trip_csv.exists
       THEN df_raw' = read_csv(trip_csv)
       ELSE df_raw' \in DemoTables(DemoRows)
    /\ Goto("normalize")
    /\ UNCHANGED <<trip_csv, weather_csv, df, st_error, metrics, weather, figs>>

\* Line 300: df = normalize_trips(df_raw).
NormalizeTrips ==
    /\ pc = "normalize"
    /\ df' = normalize_trips(df_raw)
    /\ st_error' = MissingDateCol(df_raw)
    /\ Goto("metrics")
    /\ UNCHANGED <<trip_csv, weather_csv, df_raw, metrics, weather, figs>>

\* df["trip_duration_min"].dropna().mean() as <<sum, count>>, NaN when no
\* value is left (line 304).
MeanDuration(d) ==
    LET in == {i \in Indices(d) : d.rows[i]["trip_duration_min"] # NaN}
        sum[n \in 0..Len(d.rows)] ==
            IF n = 0 THEN 0
            ELSE sum[n - 1] + (IF n \in in THEN d.rows[n]["trip_duration_min"][1] ELSE 0)
    IN  IF in = {} THEN NaN ELSE <<sum[Len(d.rows)], Cardinality(in)>>

\* Lines 303-308.
Metrics ==
    /\ pc = "metrics"
    /\ metrics' = [total_rides |-> Len(df.rows),
                   avg_duration |-> IF "trip_duration_min" \in df.cols
                                    THEN MeanDuration(df) ELSE NaN]
    /\ Goto("tab1")
    /\ UNCHANGED <<trip_csv, weather_csv, df_raw, df, st_error, weather, figs>>

\* Lines 365-366.
Tab1 ==
    /\ pc = "tab1"
    /\ IF DistributionFails(df)
       THEN Raise("ValueError") /\ figs' = figs
       ELSE Goto("tab2") /\ figs' = ("Distribution" :> fig_distribution(df)) @@ figs
    /\ UNCHANGED <<trip_csv, weather_csv, df_raw, df, st_error, metrics, weather>>

\* Lines 368-369.
Tab2 ==
    /\ pc = "tab2"
    /\ IF MonthlyTrendFails(df)
       THEN Raise("KeyError") /\ figs' = figs
       ELSE Goto("tab3") /\ figs' = ("Monthly Trend" :> fig_monthly_trend(df)) @@ figs
    /\ UNCHANGED <<trip_csv, weather_csv, df_raw, df, st_error, metrics, weather>>

\* Lines 371-372.
Tab3 ==
    /\ pc = "tab3"
    /\ IF TotalsFails(df)
       THEN Raise("KeyError") /\ figs' = figs
       ELSE Goto("tab4") /\ figs' = ("Totals" :> fig_totals(df)) @@ figs
    /\ UNCHANGED <<trip_csv, weather_csv, df_raw, df, st_error, metrics, weather>>

\* Lines 375-376.
Tab4 ==
    /\ pc = "tab4"
    /\ Goto("tab5")
    /\ figs' = ("Top Stations" :> fig_top_start_stations(df)) @@ figs
    /\ UNCHANGED <<trip_csv, weather_csv, df_raw, df, st_error, metrics, weather>>

\* Lines 378-380.
Tab5 ==
    /\ pc = "tab5"
    /\ IF weather_csv.exists /\ WeatherReadFails(weather_csv)
       THEN Raise("ValueError") /\ UNCHANGED <<weather, figs>>
       ELSE IF weather_csv.exists /\ WeatherDateFails(weather_csv)
       THEN Raise("AttributeError") /\ UNCHANGED <<weather, figs>>
       ELSE LET w == IF weather_csv.exists THEN load_weather(weather_csv) ELSE None
            IN  /\ weather' = w
                /\ IF RidesVsTempFails(df, w)
                   THEN Raise("KeyError") /\ figs' = figs
                   ELSE /\ Goto("tab6")
                        /\ figs' = ("Rides vs Temp" :> fig_rides_vs_temp(df, w)) @@ figs
    /\ UNCHANGED <<trip_csv, weather_csv, df_raw, df, st_error, metrics>>

\* Lines 382-383.
Tab6 ==
    /\ pc = "tab6"
    /\ IF HeatmapFails(df)
       THEN Raise("KeyError") /\ figs' = figs
       ELSE Goto("map") /\ figs' = ("Heatmap" :> fig_hour_weekday_heatmap(df)) @@ figs
    /\ UNCHANGED <<trip_csv, weather_csv, df_raw, df, st_error, metrics, weather>>

\* Lines 394-409: the map is embedded or a warning is shown; neither raises.
KeplerMap ==
    /\ pc = "map"
    /\ Goto("done")
    /\ UNCHANGED <<trip_csv, weather_csv, df_raw, df, st_error, metrics, weather, figs>>

Next ==
    \/ LoadTrips
    \/ NormalizeTrips
    \/ Metrics
    \/ Tab1
    \/ Tab2
    \/ Tab3
    \/ Tab4
    \/ Tab5
    \/ Tab6
    \/ KeplerMap

Spec == Init /\ [][Next]_vars

-----------------------------------------------------------------------------
(* Properties. *)

\* df holds the result of normalize_trips(df_raw).
Normalized == pc \notin {"load", "normalize"}

RawRows == Indices(df_raw)

DateNames == {"date", "started_at", "start_time", "start_datetime"}

HasDateSource == df_raw.cols \cap DateNames # {}

\* The date-like column a raw table's dates are to be taken from.
DateSource ==
    IF "date" \in df_raw.cols THEN "date"
    ELSE IF "started_at" \in df_raw.cols THEN "started_at"
    ELSE IF "start_time" \in df_raw.cols THEN "start_time"
    ELSE "start_datetime"

\* The minutes since 1970-01-01 00:00 a cell stands for, as <<n>>; <<>> for
\* a cell that is no timestamp.
Instant(cell) ==
    IF Len(cell) = 2 THEN <<cell[1] * 24 * 60 + cell[2]>>
    ELSE IF Len(cell) = 1 THEN cell
    ELSE <<>>

\* Midnight of an instant's calendar day.
Midnight(t) == IF t = <<>> THEN <<>> ELSE <<t[1] - (t[1] % (24 * 60))>>

(***************************************************************************)
(* C1.  A raw table with none of the columns date, started_at, start_time, *)
(* start_datetime makes normalize_trips signal the missing-date-column     *)
(* error, and the table it returns has no date column and no day_of_week   *)
(* or month column derived from one: the returned columns are the raw      *)
(* ones, up to the rider-type rename.                                      *)
(***************************************************************************)
C1_MissingDateIsSignalled ==
    (Normalized /\ ~HasDateSource) =>
        /\ st_error
        /\ "date" \notin df.cols
        /\ ("day_of_week" \in df.cols => "day_of_week" \in df_raw.cols)
        /\ ("month" \in df.cols => "month" \in df_raw.cols)
        /\ Cardinality(df.cols) = Cardinality(df_raw.cols)
        /\ Len(df.rows) = Len(df_raw.rows)

C1_Witness ==
    /\ Normalized
    /\ ~HasDateSource
    /\ {"ended_at", "rider_type"} \subseteq df_raw.cols
    /\ Len(df_raw.rows) = 1
    /\ st_error

(***************************************************************************)
(* C2.  With a recognizable date column and an optional column class       *)
(* missing (no rider-type column, no duration source, or a weather table   *)
(* with no temperature column), the run from load_trips through every tab  *)
(* never ends in an unhandled exception.                                   *)
(***************************************************************************)
RiderNames == {"member_casual", "rider_type", "usertype", "user_type"}

DurationNames ==
    {"trip_duration_min", "trip_duration", "duration_min", "ride_length_min",
     "ride_duration_min", "tripduration_min"}

EndNames == {"ended_at", "stoptime", "end_time"}

NoRiderColumn == df_raw.cols \cap RiderNames = {}

NoDurationSource == df_raw.cols \cap DurationNames = {} /\ df_raw.cols \cap EndNames = {}

WeatherWithoutTemperature ==
    /\ weather_csv.exists
    /\ "date" \in weather_csv.cols
    /\ weather_csv.cols \cap WeatherColumnPool = {}

\* The weather file, when there is one, is one load_weather can read.
WeatherReadable ==
    weather_csv.exists => ~WeatherReadFails(weather_csv) /\ ~WeatherDateFails(weather_csv)

C2_NoUnhandledFailure ==
    (/\ pc # "load"
     /\ HasDateSource
     /\ WeatherReadable
     /\ NoRiderColumn \/ NoDurationSource \/ WeatherWithoutTemperature)
        => pc # "crashed"

\* The run ends in an exception for a weather file without a temperature
\* column.
C2_Crash ==
    /\ pc = "crashed"
    /\ HasDateSource
    /\ WeatherWithoutTemperature

(***************************************************************************)
(* C3.  The rider-type column is resolved by priority.  As claimed: the    *)
(* first present of member_casual, rider_type, usertype, user_type becomes *)
(* member_casual, values unchanged.  As the code has it: the first present *)
(* of member_casual, rider_type, member.casual, memberCasual becomes       *)
(* member_casual, values unchanged; usertype and user_type are not         *)
(* candidates and stay as they are, and with no candidate present the      *)
(* output has no member_casual column.                                     *)
(***************************************************************************)
\* The first name of the sequence `names` that is a raw column, "" if none.
FirstRaw(names) ==
    IF \A i \in 1..Len(names) : names[i] \notin df_raw.cols THEN ""
    ELSE names[CHOOSE i \in 1..Len(names) :
                  /\ names[i] \in df_raw.cols
                  /\ \A j \in 1..(i - 1) : names[j] \notin df_raw.cols]

\* df's column `out` holds, row by row, the raw column `src`.
CopiedFrom(out, src) ==
    /\ out \in df.cols
    /\ Len(df.rows) = Len(df_raw.rows)
    /\ \A i \in RawRows : df.rows[i][out] = df_raw.rows[i][src]

\* Whenever one of `names` is a raw column, member_casual holds the first
\* present one's values.
RiderResolved(names) ==
    (Normalized /\ FirstRaw(names) # "") => CopiedFrom("member_casual", FirstRaw(names))

C3_RiderAsClaimed ==
    RiderResolved(<<"member_casual", "rider_type", "usertype", "user_type">>)

C3_RiderByPriority ==
    /\ RiderResolved(<<"member_casual", "rider_type", "member.casual", "memberCasual">>)
    /\ Normalized =>
          /\ \A c \in {"usertype", "user_type"} : c \in df_raw.cols => CopiedFrom(c, c)
          /\ df_raw.cols \cap {"member_casual", "rider_type", "member.casual",
                               "memberCasual"} = {}
                => "member_casual" \notin df.cols

C3_Witness ==
    /\ Normalized
    /\ {"rider_type", "memberCasual"} \subseteq df_raw.cols
    /\ df_raw.rows[1]["rider_type"] = "casual"
    /\ df_raw.rows[1]["memberCasual"] = "member"
    /\ df.rows[1]["member_casual"] = "casual"

(***************************************************************************)
(* C4.  With a date source, trip_duration_min is (a) the raw               *)
(* trip_duration_min column, else (b) a copy of the first present of       *)
(* trip_duration, duration_min, ride_length_min, ride_duration_min,        *)
(* tripduration_min, else (c) end minus start in minutes, and is absent    *)
(* when none applies.  As claimed, (c) applies to a start and an end       *)
(* column under any of their candidate names; as the code has it, (c)      *)
(* applies only when the columns started_at and ended_at are both present. *)
(***************************************************************************)
\* end - start in minutes of raw row i, NaN when either does not parse.
MinutesBetween(i, start, end) ==
    LET s == Instant(df_raw.rows[i][start])
        e == Instant(df_raw.rows[i][end])
    IN  IF s = <<>> \/ e = <<>> THEN <<>> ELSE <<e[1] - s[1]>>

DerivedFrom(start, end) ==
    /\ "trip_duration_min" \in df.cols
    /\ Len(df.rows) = Len(df_raw.rows)
    /\ \A i \in RawRows : df.rows[i]["trip_duration_min"] = MinutesBetween(i, start, end)

GuessNames ==
    <<"trip_duration", "duration_min", "ride_length_min", "ride_duration_min",
      "tripduration_min">>

\* The resolution order, with (c) taking its columns from start and end
\* ("" when (c) does not apply).
DurationResolved(start, end) ==
    (Normalized /\ HasDateSource) =>
        IF "trip_duration_min" \in df_raw.cols
        THEN CopiedFrom("trip_duration_min", "trip_duration_min")
        ELSE IF FirstRaw(GuessNames) # ""
        THEN CopiedFrom("trip_duration_min", FirstRaw(GuessNames))
        ELSE IF start # "" /\ end # ""
        THEN DerivedFrom(start, end)
        ELSE "trip_duration_min" \notin df.cols

C4_DurationAsClaimed ==
    DurationResolved(FirstRaw(<<"date", "started_at", "start_time", "start_datetime">>),
                     FirstRaw(<<"ended_at", "stoptime", "end_time">>))

C4_DurationByOrder ==
    DurationResolved(IF "ended_at" \in df_raw.cols THEN FirstRaw(<<"started_at">>) ELSE "",
                     IF "started_at" \in df_raw.cols THEN FirstRaw(<<"ended_at">>) ELSE "")

C4_Witness ==
    /\ Normalized
    /\ {"date", "trip_duration", "duration_min"} \subseteq df_raw.cols
    /\ df_raw.rows[1]["trip_duration"] = <<-5>>
    /\ df_raw.rows[1]["duration_min"] = <<15>>
    /\ df.rows[1]["trip_duration_min"] = <<-5>>

(***************************************************************************)
(* C5.  As claimed: every non-missing trip_duration_min is non-negative.   *)
(* As the code has it: a derived duration keeps its sign for every row     *)
(* alike, negative exactly when ended_at precedes started_at and never     *)
(* clamped; a copied duration is the source value, negative or not.        *)
(***************************************************************************)
C5_NonNegative ==
    (Normalized /\ "trip_duration_min" \in df.cols) =>
        \A i \in Indices(df) :
            df.rows[i]["trip_duration_min"] # NaN => df.rows[i]["trip_duration_min"][1] >= 0

\* The duration is derived from the timestamps (no precomputed column).
DurationIsDerived ==
    /\ HasDateSource
    /\ df_raw.cols \cap DurationNames = {}
    /\ {"started_at", "ended_at"} \subseteq df_raw.cols

C5_SignKept ==
    /\ (Normalized /\ DurationIsDerived) =>
          \A i \in RawRows :
              LET s == Instant(df_raw.rows[i]["started_at"])
                  e == Instant(df_raw.rows[i]["ended_at"])
                  m == df.rows[i]["trip_duration_min"]
              IN  IF s = <<>> \/ e = <<>> THEN m = NaN
                  ELSE /\ m # NaN
                       /\ m[1] < 0 <=> e[1] < s[1]
                       /\ m[1] = 0 <=> e[1] = s[1]
                       /\ s[1] + m[1] = e[1]
    /\ (Normalized /\ HasDateSource /\ "trip_duration_min" \in df_raw.cols) =>
          \A i \in RawRows :
              df.rows[i]["trip_duration_min"] = df_raw.rows[i]["trip_duration_min"]

C5_Witness ==
    /\ Normalized
    /\ DurationIsDerived
    /\ Len(df.rows) = 2
    /\ df.rows[1]["trip_duration_min"] = <<-10>>
    /\ df.rows[2]["trip_duration_min"] = <<15>>

(***************************************************************************)
(* C6.  A row whose date-source value cannot be parsed is kept with a      *)
(* missing date, a missing day_of_week and a missing month, never a label, *)
(* so that no date-keyed aggregation counts it in any group; and every     *)
(* non-missing month is the YYYY-MM label of the row's date.               *)
(***************************************************************************)
IsDigit(ch) == ch \in {"0", "1", "2", "3", "4", "5", "6", "7", "8", "9"}

\* Whether a month value has the shape YYYY-MM.
IsMonthLabel(m) ==
    /\ Len(m) = 7
    /\ m[5] = "-"
    /\ \A k \in {1, 2, 3, 4, 6, 7} : IsDigit(m[k])

\* The rows of df whose date is missing.
UndatedRows == {i \in Indices(df) : df.rows[i]["date"] = NaT}

RECURSIVE SumOver(_, _)
\* The sum of f over the finite set K of f's domain.
SumOver(f, K) ==
    IF K = {} THEN 0
    ELSE LET k == CHOOSE x \in K : TRUE IN f[k] + SumOver(f, K \ {k})

C6_UndatedRowsAreMissing ==
    (Normalized /\ HasDateSource) =>
        /\ Len(df.rows) = Len(df_raw.rows)
        /\ \A i \in RawRows :
              Instant(df_raw.rows[i][DateSource]) = <<>> =>
                  /\ df.rows[i]["date"] = NaT
                  /\ df.rows[i]["day_of_week"] = -1
                  /\ df.rows[i]["month"] = NaN
        /\ \A i \in Indices(df) :
              df.rows[i]["month"] # NaN => IsMonthLabel(df.rows[i]["month"])
        /\ "Monthly Trend" \in DOMAIN figs =>
              SumOver(figs["Monthly Trend"], DOMAIN figs["Monthly Trend"])
                  = Len(df.rows) - Cardinality(UndatedRows)

\* The monthly chart counts a row without a date, in a group named NaT.
C6_UndatedRowCounted ==
    /\ "Monthly Trend" \in DOMAIN figs
    /\ UndatedRows # {}
    /\ <<<<"N", "a", "T">>, "member">> \in DOMAIN figs["Monthly Trend"]

(***************************************************************************)
(* C7.  With a date source, each output date is the calendar date (time of *)
(* day truncated) of the row's value in the first present column of date,  *)
(* started_at, start_time, start_datetime; so no output date lies before   *)
(* the day of the source's earliest timestamp or after the day of its      *)
(* latest, and a lower-priority column never determines the date.          *)
(***************************************************************************)
\* The instants of the date source's values that parse.
SourceInstants ==
    {Instant(df_raw.rows[i][DateSource])[1] :
        i \in {j \in RawRows : Instant(df_raw.rows[j][DateSource]) # <<>>}}

C7_DateIsSourceDay ==
    (Normalized /\ HasDateSource) =>
        /\ "date" \in df.cols
        /\ Len(df.rows) = Len(df_raw.rows)
        /\ \A i \in RawRows :
              df.rows[i]["date"] = Midnight(Instant(df_raw.rows[i][DateSource]))
        /\ \A i \in Indices(df) :
              df.rows[i]["date"] # NaT =>
                  /\ \E t \in SourceInstants : Midnight(<<t>>)[1] <= df.rows[i]["date"][1]
                  /\ \A t \in SourceInstants :
                        (\A u \in SourceInstants : u <= t) => df.rows[i]["date"][1] <= t
                  /\ \A t \in SourceInstants :
                        (\A u \in SourceInstants : t <= u)
                            => Midnight(<<t>>)[1] <= df.rows[i]["date"][1]

C7_Witness ==
    /\ Normalized
    /\ {"date", "started_at"} \subseteq df_raw.cols
    /\ Len(df_raw.rows) = 2
    /\ df_raw.rows[1]["date"] = <<19024, 30>>
    /\ df_raw.rows[1]["started_at"] = <<18993, 480>>
    /\ df_raw.rows[2]["date"] = <<18993, 480>>
    /\ df.rows[1]["date"] = <<19024 * 24 * 60>>
    /\ df.rows[2]["date"] = <<18993 * 24 * 60>>

(***************************************************************************)
(* C8.  The joined view of fig_rides_vs_temp has no row for a date that    *)
(* occurs on one side only.  As claimed, it has exactly one row for each   *)
(* date on both sides; as the code has it, it has one row for each weather *)
(* row of such a date, which is exactly one when the weather table has one *)
(* row for that date.                                                      *)
(***************************************************************************)
\* The chart of tab 5 was built from a weather table.
Joined == "Rides vs Temp" \in DOMAIN figs /\ figs["Rides vs Temp"].joined

JoinedRows == figs["Rides vs Temp"].rows

\* The days (as midnights) of the trips table and of the weather file.
TripDays == {df.rows[i]["date"] : i \in Indices(df)} \ {NaT}

WeatherRowsOn(day) ==
    {i \in 1..Len(weather_csv.rows) : Midnight(Instant(weather_csv.rows[i]["date"])) = day}

WeatherDays ==
    {Midnight(Instant(weather_csv.rows[i]["date"])) : i \in 1..Len(weather_csv.rows)}

JoinedRowsOn(day) == {j \in 1..Len(JoinedRows) : JoinedRows[j]["date"] = day}

WeatherLoaded ==
    /\ pc \in {"tab6", "map", "done"} \/ (pc = "crashed" /\ failure = "KeyError" /\ ~weather.none)
    /\ weather_csv.exists
    /\ weather_csv.cols \cap WeatherColumnPool # {}

\* The first temperature candidate the weather file has.
FirstTemp ==
    IF "avg_temp_f" \in weather_csv.cols THEN "avg_temp_f"
    ELSE IF "tavg_f" \in weather_csv.cols THEN "tavg_f"
    ELSE IF "tavg" \in weather_csv.cols THEN "tavg"
    ELSE IF "temp_avg_f" \in weather_csv.cols THEN "temp_avg_f"
    ELSE "avg_temp_f_tenths"

\* Fractions a and b are equal fractions and b is a tenth of a.
IsTenthOf(b, a) == b[1] * a[2] * 10 = a[1] * b[2] /\ b[2] > 0

\* The returned table has the date and the column `name`, which holds the
\* first candidate's values (a tenth of them for avg_temp_f_tenths).
TemperatureReturnedAs(name) ==
    /\ weather.cols = {"date", name}
    /\ Len(weather.rows) = Len(weather_csv.rows)
    /\ \A i \in 1..Len(weather.rows) :
          /\ weather.rows[i]["date"] = Midnight(Instant(weather_csv.rows[i]["date"]))
          /\ IF FirstTemp = "avg_temp_f_tenths"
             THEN IsTenthOf(weather.rows[i][name], weather_csv.rows[i][FirstTemp])
             ELSE weather.rows[i][name] = weather_csv.rows[i][FirstTemp]

C9_TemperatureNamedAvgTempF == WeatherLoaded => TemperatureReturnedAs("avg_temp_f")

C9_TemperatureFirstCandidate ==
    WeatherLoaded =>
        TemperatureReturnedAs(IF FirstTemp = "avg_temp_f_tenths" THEN "avg_temp_f"
                              ELSE FirstTemp)

C9_Witness ==
    /\ WeatherLoaded
    /\ weather_csv.cols = {"date", "avg_temp_f_tenths"}
    /\ Len(weather.rows) = 2
    /\ weather.rows[1]["avg_temp_f"] = <<101, 2>>

C9_WitnessOwnName ==
    /\ WeatherLoaded
    /\ weather_csv.cols = {"date", "tavg", "avg_temp_f_tenths"}
    /\ weather.cols = {"date", "tavg"}

(***************************************************************************)
(* C10.  With a date source, every day_of_week value is one of the seven   *)
(* labels Monday .. Sunday and is the weekday of the row's date (a row     *)
(* without a date has no day_of_week value), and the order of the values   *)
(* is Monday < Tuesday < ... < Sunday whatever the order of the rows.      *)
(***************************************************************************)
MondayFirst ==
    <<"Monday", "Tuesday", "Wednesday", "Thursday", "Friday", "Saturday", "Sunday">>

\* The place of a label in the week, 1 for Monday.
PlaceInWeek(label) == CHOOSE k \in 1..7 : MondayFirst[k] = label

\* The weekday of a midnight, counted from Saturday 2022-01-01.
WeekdayOf(day) == MondayFirst[((day[1] \div (24 * 60) - 18993 + 5) % 7) + 1]

\* The label of row i's day_of_week, a category of the column.
DayLabel(i) == WEEKDAY_ORDER[df.rows[i]["day_of_week"] + 1]

DatedRows == Indices(df) \ UndatedRows

C10_WeekdayLabelsAndOrder ==
    (Normalized /\ HasDateSource) =>
        /\ \A i \in UndatedRows : df.rows[i]["day_of_week"] = -1
        /\ \A i \in DatedRows :
              /\ df.rows[i]["day_of_week"] \in 0..6
              /\ DayLabel(i) \in Range(MondayFirst)
              /\ DayLabel(i) = WeekdayOf(df.rows[i]["date"])
        /\ \A i, j \in DatedRows :
              df.rows[i]["day_of_week"] < df.rows[j]["day_of_week"]
                  <=> PlaceInWeek(DayLabel(i)) < PlaceInWeek(DayLabel(j))

\* A Tuesday row before a Saturday row: the Tuesday still orders first.
C10_Witness ==
    /\ Normalized
    /\ "start_time" \in df_raw.cols
    /\ Len(df.rows) = 2
    /\ df_raw.rows[1]["start_time"] = <<19024, 30>>
    /\ df_raw.rows[2]["start_time"] = <<18993, 480>>
    /\ DayLabel(1) = "Tuesday"
    /\ DayLabel(2) = "Saturday"
    /\ df.rows[1]["day_of_week"] < df.rows[2]["day_of_week"]

=============================================================================
